---------------------------- MODULE Spec2Model ----------------------------
(***************************************************************************)
(* A model of the le_go Logger (src/le.go, package le_go): the asynchronous *)
(* logging path Output -> goroutine -> writeToLogEntries -> Write, its      *)
(* channel locks (mu, writeLock), the admission pool (concurrentWrites),    *)
(* the WaitGroup behind Flush, and the connection handling.                 *)
(*                                                                         *)
(* Bytes are modelled as one-character strings; a string of the program is  *)
(* a sequence of bytes.  Lengths are scaled: maxLogLength is 4 here (65000  *)
(* in the source), so that payloads of a few bytes span several chunks.     *)
(*                                                                         *)
(* The earlier Logger of src/unnamed/part_000 (a sync.Mutex around conn, a  *)
(* closed state, one reconnection per failed Write) is modelled on the same *)
(* state by the Mutex actions and checked under SpecMutex.                  *)
(***************************************************************************)
EXTENDS Integers, Sequences, FiniteSets, TLC

(***************************************************************************)
(* Bounds of the model.                                                    *)
(***************************************************************************)
NumCalls == 2        \* logging calls issued concurrently (Spec)
MaxLimit == 1        \* largest concurrentWrites given to Connect
MaxLen == 5          \* longest payload handed to a logging call (SpecFrame)
MaxConn == 2         \* connections the endpoint accepts in one run
MaxReopen == 2       \* reconnections the endpoint accepts (SpecMutex, SpecHandle)

(***************************************************************************)
(* Program constants.                                                      *)
(***************************************************************************)
maxLogLength == 4    \* src/le.go:90 (65000 there; scaled with the payloads)

lineSep == "\n"                       \* src/le.go:89
u2028 == <<"e2", "80", "a8">>         \* U+2028 in UTF-8, src/le.go:271

\* The flag bits of package log that formatHeader and Output test.
Ldate == 1
Ltime == 2
Lmicroseconds == 4
Llongfile == 8
Lshortfile == 16
LUTC == 32

Calls == 1 .. NumCalls

\* l.flag & bits != 0, for bits a sum of distinct flag bits
HasAny(f, bits) ==
  \E b \in {Ldate, Ltime, Lmicroseconds, Llongfile, Lshortfile, LUTC} :
    /\ (bits \div b) % 2 = 1
    /\ (f \div b) % 2 = 1

(***************************************************************************)
(* Strings.                                                                *)
(***************************************************************************)
RECURSIVE Count(_, _)
\* strings.Count(s, sep) for a one-byte sep
Count(s, sep) ==
  IF s = <<>> THEN 0
  ELSE (IF Head(s) = sep THEN 1 ELSE 0) + Count(Tail(s), sep)

RECURSIVE Replace(_, _)
\* strings.Replace(s, lineSep, "U+2028", n): the first n line separators are
\* replaced; every one of them when n < 0.
Replace(s, n) ==
  IF s = <<>> THEN <<>>
  ELSE IF Head(s) = lineSep /\ n # 0
       THEN u2028 \o Replace(Tail(s), n - 1)
       ELSE <<Head(s)>> \o Replace(Tail(s), n)

\* Output, lines 269-271: count := strings.Count(s, lineSep);
\* s = strings.Replace(s, lineSep, U+2028, count-1)
EscapeNewlines(str) == Replace(str, Count(str, lineSep) - 1)

\* s[i:end] of Go (0-based, end exclusive)
Slice(s, i, end) == SubSeq(s, i + 1, end)

RECURSIVE SeqsUpTo(_, _)
\* all sequences over alphabet A of length at most n
SeqsUpTo(A, n) ==
  IF n = 0 THEN {<<>>}
  ELSE LET shorter == SeqsUpTo(A, n - 1)
       IN shorter \cup {<<a>> \o t : a \in A, t \in {u \in shorter : Len(u) = n - 1}}

(***************************************************************************)
(* formatHeader, lines 364-409.  The digits of the clock and of the line    *)
(* number are collapsed to one byte per field.                              *)
(***************************************************************************)
callerFile == <<"d", "/", "f">>       \* what runtime.Caller reports
unknownFile == <<"?", "?", "?">>      \* line 257: runtime.Caller failed

RECURSIVE ShortFile(_, _)
\* lines 395-402: the part of file after its last '/', searched from the end
\* down to index 1
ShortFile(file, k) ==
  IF k < 1 THEN file
  ELSE IF file[k + 1] = "/" THEN Slice(file, k + 1, Len(file))
       ELSE ShortFile(file, k - 1)

formatHeader(pfx, f, file) ==
  pfx
  \o (IF HasAny(f, Ldate + Ltime + Lmicroseconds)
      THEN (IF HasAny(f, Ldate) THEN <<"D", " ">> ELSE <<>>)
           \o (IF HasAny(f, Ltime + Lmicroseconds)
               THEN <<"t">>
                    \o (IF HasAny(f, Lmicroseconds) THEN <<".", "u">> ELSE <<>>)
                    \o <<" ">>
               ELSE <<>>)
      ELSE <<>>)
  \o (IF HasAny(f, Lshortfile + Llongfile)
      THEN (IF HasAny(f, Lshortfile) THEN ShortFile(file, Len(file) - 1) ELSE file)
           \o <<":", "0", ":", " ">>
      ELSE <<>>)


(***************************************************************************)
(* writeToLogEntries, lines 444-455: one chunk of the payload.              *)
(***************************************************************************)
\* lines 445-448
ChunkEnd(idx, str) ==
  IF idx + maxLogLength - 2 > Len(str) THEN Len(str) ELSE idx + maxLogLength - 2

\* lines 449-455: l.buf for the chunk that starts at idx
BuildBuf(tok, pfx, f, file, str, idx) ==
  tok \o <<" ">>
  \o formatHeader(pfx, f, file)
  \o Slice(str, idx, ChunkEnd(idx, str))
  \o (IF Len(str) = 0 \/ str[Len(str)] # lineSep THEN <<lineSep>> ELSE <<>>)

\* a faulty variant: the loop index does not advance
NextIndexStuck(idx, n) == idx

\* line 444: i = i + n, n the byte count Write returned for l.buf
NextIndex(idx, n) == idx + n

(***************************************************************************)
(* State.                                                                  *)
(***************************************************************************)
VARIABLES
  token,       \* Logger.token
  prefix,      \* Logger.prefix
  flag,        \* Logger.flag
  conn,        \* Logger.conn: the id of the connection held
  openConns,   \* ids of the connections of the logger not closed on its side
  dialed,      \* connections dialed so far
  stale,       \* time.Now() is past lastRefreshAt + 15 minutes
  mu,          \* permits in the channel Logger.mu (capacity 1)
  writeLock,   \* permits in the channel Logger.writeLock (capacity 1)
  limit,       \* concurrentWrites given to Connect; 0: the channel is nil
  tokens,      \* permits in the channel Logger.concurrentWrites
  wg,          \* the counter of Logger.wg
  buf,         \* Logger.buf
  opc,         \* per call: where its Output is
  tpc,         \* per call: where the goroutine Output started is
  kind,        \* per call: the doAsync hook (print, fatal, panic)
  arg,         \* per call: the string given to Output
  s,           \* per call: the string after the newline replacement
  file,        \* per call: the file runtime.Caller reported
  i,           \* per call: the loop index of writeToLogEntries
  sent,        \* per call: the buffers its writes put on the connection
  carried,     \* per call: the payload slices of those buffers, concatenated
  res,         \* per call: how the call ended
  fpc,         \* where the caller of Flush is
  flushSeen,   \* the goroutines in flight when Flush was called
  proc,        \* the process: running, exited (os.Exit) or crashed (panic)
  errOutput,   \* per call: what it printed to Logger.errOutput
  stdLog,      \* per call: what it printed through the standard logger (log.Printf)
  ret,         \* per call of Write or Close: what it returned
  closed,      \* Close has been called on the handle
  apc,         \* where the caller of an accessor (Flags, SetFlags, ...) is
  aval         \* the accessor called, and its argument or result

vars == <<token, prefix, flag, conn, openConns, dialed, stale, mu, writeLock,
          limit, tokens, wg, buf, opc, tpc, kind, arg, s, file, i, sent,
          carried, res, fpc, flushSeen, proc, errOutput, stdLog, ret, closed,
          apc, aval>>

loggerVars == <<token, prefix, flag>>
connVars == <<conn, openConns, dialed, stale>>
flushVars == <<fpc, flushSeen>>
sinkVars == <<errOutput, stdLog>>
handleVars == <<ret, closed>>
accVars == <<apc, aval>>

Byte == {"a", lineSep}
FramePayloads == SeqsUpTo(Byte, MaxLen)
shortPayload == <<"a">>
longPayload == <<"a", "a", "a", "a", "a", "a", "a", "a">>
\* the first caller logs a record of one chunk or one of two, the others
\* records of one chunk
PayloadsOf(c) == IF c = 1 THEN {shortPayload, longPayload} ELSE {shortPayload}
FlagValues == {0, Ltime, Lshortfile}
PrefixValues == {<<>>, <<"P">>}
Kinds == {"print", "fatal", "panic"}
\* the first caller logs at every level, the others with Print
HooksOf(c) == IF c = 1 THEN Kinds ELSE {"print"}

\* a call of Write or Close that has not returned
noReturn == [n |-> 0, err |-> "none", writes |-> 0, dials |-> 0, was |-> 0]

\* newEmptyLogger and Connect, lines 97-133
InitLogger(tok, lim, pfx, f) ==
  /\ token = tok
  /\ prefix = pfx
  /\ flag = f
  /\ conn = 1
  /\ openConns = {1}
  /\ dialed = 1
  /\ stale = FALSE
  /\ mu = 1
  /\ writeLock = 1
  /\ limit = lim
  /\ tokens = lim
  /\ wg = 0
  /\ buf = <<>>
  /\ opc = [c \in Calls |-> "idle"]
  /\ tpc = [c \in Calls |-> "none"]
  /\ kind = [c \in Calls |-> "print"]
  /\ arg = [c \in Calls |-> <<>>]
  /\ s = [c \in Calls |-> <<>>]
  /\ file = [c \in Calls |-> <<>>]
  /\ i = [c \in Calls |-> 0]
  /\ sent = [c \in Calls |-> <<>>]
  /\ carried = [c \in Calls |-> <<>>]
  /\ res = [c \in Calls |-> "none"]
  /\ fpc = "idle"
  /\ flushSeen = {}
  /\ proc = "running"
  /\ errOutput = [c \in Calls |-> <<>>]
  /\ stdLog = [c \in Calls |-> <<>>]
  /\ ret = [c \in Calls |-> noReturn]
  /\ closed = FALSE
  /\ apc = "idle"
  /\ aval = [op |-> "Flags", f |-> 0, p |-> <<>>]

\* The logger after Connect, with the flags an earlier SetFlags left.
Init ==
  \E lim \in 0 .. MaxLimit, f \in {0, Lshortfile} :
    InitLogger(<<"T">>, lim, <<>>, f)


(***************************************************************************)
(* Channel operations.  Both locks are channels of capacity 1 holding one   *)
(* permit when free: a receive takes the permit, unlock (lines 489-491)     *)
(* sends one and blocks while the channel is full.                          *)
(***************************************************************************)
CanReceive(ch) == ch > 0
CanSend(ch, cap) == ch < cap
Receive(ch) == ch - 1
unlock(ch) == ch + 1

\* a faulty variant: the default branch of the admission select is missing
AdmittedAlways(lim, t) == TRUE

\* lines 233-239: the select on concurrentWrites finds a permit, or the
\* channel is nil
Admitted(lim, t) == lim = 0 \/ CanReceive(t)

\* a faulty variant: the goroutine is started without wg.Add(1)
WgAddMissing(w) == w

\* line 273: l.wg.Add(1)
WgAdd(w) == w + 1

\* line 275: l.wg.Done()
WgDone(w) == w - 1

\* a faulty variant: the timeout branch does not return and falls into the loop
AfterWriteLockTimeoutFallsThrough == "loop"

\* lines 432-436: where the goroutine goes after the writeLock timeout
\* (writeToLogEntries returns; doAsync is next)
AfterWriteLockTimeout == "async"

Set(f, c, v) == [f EXCEPT ![c] = v]

(***************************************************************************)
(* Diagnostics.  A printed line is kept as the message it starts with and   *)
(* the payload it names (the %s argument), empty when it names none.        *)
(***************************************************************************)
Line(msg, str) == [msg |-> msg, payload |-> str]

\* line 246, printed to l.errOutput
MuTimeoutMessage(str) == <<Line("Timedout waiting for logger.mu", str)>>

\* line 263, printed to l.errOutput
CallerInfoTimeoutMessage(str) ==
  <<Line("Timedout waiting for logger.mu after getting caller info", str)>>

\* a faulty variant: the timeout branch prints nothing
WriteLockTimeoutSilent(str) == <<>>

\* line 434, printed to l.errOutput
WriteLockTimeoutMessage(str) ==
  <<Line("Timedout waiting for logging writelock", str)>>

\* lines 458-459, printed with log.Printf
DeadlineErrorMessage(str) ==
  <<Line("le_go: Error setting write deadline", <<>>), Line("Wanted to log", str)>>

\* lines 464-465, printed with log.Printf
WriteErrorMessage(str) ==
  <<Line("Error in write call", <<>>), Line("Wanted to log", str)>>

\* lines 226-232: the recover deferred by Output prints the panic value and
\* panics again.  It is deferred in the frame of Output: a panic in another
\* goroutine (the one started at line 274) unwinds that goroutine only and
\* never reaches it.
RecoverMessage(frame, v) ==
  IF frame = "Output" THEN <<Line("Panicked in logger.output", v)>> ELSE <<>>

\* fmt.Fprintf(l.errOutput, ...) and log.Printf(...) by call c
Emit(sink, c, lines) == Set(sink, c, sink[c] \o lines)

\* the locals of a call (s, file, i) go as its last function returns
Forget(c) ==
  /\ arg' = Set(arg, c, <<>>)
  /\ s' = Set(s, c, <<>>)
  /\ file' = Set(file, c, <<>>)
  /\ i' = Set(i, c, 0)

(***************************************************************************)
(* Output, lines 225-282.                                                  *)
(***************************************************************************)
\* lines 233-240: the call starts; the admission select
OutputAdmit(c, P, K) ==
  /\ proc = "running"
  /\ opc[c] = "idle"
  /\ \E p \in P, k \in K :
       /\ kind' = Set(kind, c, k)
       /\ IF Admitted(limit, tokens)
          THEN /\ arg' = Set(arg, c, p)
               /\ tokens' = (IF limit = 0 THEN tokens ELSE Receive(tokens))
               /\ opc' = Set(opc, c, "lockmu")
               /\ res' = res
          ELSE /\ arg' = arg
               /\ tokens' = tokens
               /\ opc' = Set(opc, c, "returned")
               /\ res' = Set(res, c, "dropped")
  /\ UNCHANGED <<loggerVars, connVars, flushVars, mu, writeLock, limit, wg,
                 buf, tpc, s, file, i, sent, carried, proc,
                 sinkVars, handleVars,
                 accVars>>

\* lines 269-281: the replacement, wg.Add(1) and the go statement
Spawn(c) ==
  /\ s' = Set(s, c, EscapeNewlines(arg[c]))
  /\ wg' = WgAdd(wg)
  /\ tpc' = Set(tpc, c, "wlock")

\* lines 243-244 and 250-251: mu is received; with a file flag set the call
\* goes on to release it for runtime.Caller, otherwise it starts the goroutine
OutputLockMu(c) ==
  /\ proc = "running"
  /\ opc[c] = "lockmu"
  /\ CanReceive(mu)
  /\ mu' = Receive(mu)
  /\ IF HasAny(flag, Lshortfile + Llongfile)
     THEN /\ opc' = Set(opc, c, "ci_unlock")
          /\ UNCHANGED <<s, wg, tpc>>
     ELSE /\ opc' = Set(opc, c, "defer_unlock")
          /\ Spawn(c)
  /\ UNCHANGED <<loggerVars, connVars, flushVars, writeLock, limit, tokens,
                 buf, kind, arg, file, i, sent, carried, res, proc,
                 sinkVars, handleVars,
                 accVars>>

\* lines 245-248: the wait for mu times out; the call returns
OutputLockMuTimeout(c) ==
  /\ proc = "running"
  /\ opc[c] = "lockmu"
  /\ ~CanReceive(mu)
  /\ opc' = Set(opc, c, "returned")
  /\ res' = Set(res, c, "mu_timeout")
  /\ errOutput' = Emit(errOutput, c, MuTimeoutMessage(arg[c]))
  /\ Forget(c)
  /\ UNCHANGED <<loggerVars, connVars, flushVars, mu, writeLock, limit, tokens,
                 wg, buf, tpc, kind, sent, carried, proc,
                 stdLog, handleVars,
                 accVars>>

\* lines 253-259: unlock(l.mu), then runtime.Caller
OutputCallerInfo(c, F) ==
  /\ proc = "running"
  /\ opc[c] = "ci_unlock"
  /\ CanSend(mu, 1)
  /\ mu' = unlock(mu)
  /\ \E f \in F : file' = Set(file, c, f)
  /\ opc' = Set(opc, c, "ci_relock")
  /\ UNCHANGED <<loggerVars, connVars, flushVars, writeLock, limit, tokens,
                 wg, buf, tpc, kind, arg, s, i, sent, carried, res, proc,
                 sinkVars, handleVars,
                 accVars>>

\* lines 260-261 and 269-281: mu is received again; the goroutine starts
OutputRelock(c) ==
  /\ proc = "running"
  /\ opc[c] = "ci_relock"
  /\ CanReceive(mu)
  /\ mu' = Receive(mu)
  /\ opc' = Set(opc, c, "defer_unlock")
  /\ Spawn(c)
  /\ UNCHANGED <<loggerVars, connVars, flushVars, writeLock, limit, tokens,
                 buf, kind, arg, file, i, sent, carried, res, proc,
                 sinkVars, handleVars,
                 accVars>>

\* lines 262-265: the second wait for mu times out; the call returns through
\* the deferred unlock of line 250
OutputRelockTimeout(c) ==
  /\ proc = "running"
  /\ opc[c] = "ci_relock"
  /\ ~CanReceive(mu)
  /\ opc' = Set(opc, c, "defer_unlock")
  /\ res' = Set(res, c, "ci_timeout")
  /\ errOutput' = Emit(errOutput, c, CallerInfoTimeoutMessage(arg[c]))
  /\ Forget(c)
  /\ UNCHANGED <<loggerVars, connVars, flushVars, mu, writeLock, limit, tokens,
                 wg, buf, tpc, kind, sent, carried, proc,
                 stdLog, handleVars,
                 accVars>>

\* line 250: the deferred unlock(l.mu) as Output returns
OutputReturn(c) ==
  /\ proc = "running"
  /\ opc[c] = "defer_unlock"
  /\ CanSend(mu, 1)
  /\ mu' = unlock(mu)
  /\ opc' = Set(opc, c, "returned")
  /\ UNCHANGED <<loggerVars, connVars, flushVars, writeLock, limit, tokens,
                 wg, buf, tpc, kind, arg, s, file, i, sent, carried, res, proc,
                 sinkVars, handleVars,
                 accVars>>


(***************************************************************************)
(* The connection, lines 144-193 and 352-357.                              *)
(***************************************************************************)
\* isOpenConnection, lines 155-181: a stale connection is closed and reported
\* not open; otherwise the probe read decides (a timeout error: open)
IsOpen(st, cn, open, probeTimedOut) == ~st /\ cn \in open /\ probeTimedOut

\* lines 160-162: the connections still open after isOpenConnection
AfterProbe(st, cn, open) == IF st THEN open \ {cn} ELSE open

\* SetWriteDeadline, line 456: fails on a connection closed on this side
DeadlineSet(cn, open) == cn \in open

(***************************************************************************)
(* The goroutine of Output, lines 274-281, and writeToLogEntries, 429-473. *)
(***************************************************************************)
\* lines 430-431 and 439-444: writeLock is received
TaskLockWrite(c) ==
  /\ proc = "running"
  /\ tpc[c] = "wlock"
  /\ CanReceive(writeLock)
  /\ writeLock' = Receive(writeLock)
  /\ i' = Set(i, c, 0)
  /\ tpc' = Set(tpc, c, "loop")
  /\ UNCHANGED <<loggerVars, connVars, flushVars, mu, limit, tokens, wg, buf,
                 opc, kind, arg, s, file, sent, carried, res, proc,
                 sinkVars, handleVars,
                 accVars>>

\* lines 432-436: the wait for writeLock times out
TaskLockWriteTimeout(c) ==
  /\ proc = "running"
  /\ tpc[c] = "wlock"
  /\ ~CanReceive(writeLock)
  /\ res' = Set(res, c, "wl_timeout")
  /\ tpc' = Set(tpc, c, AfterWriteLockTimeout)
  /\ errOutput' = Emit(errOutput, c, WriteLockTimeoutMessage(s[c]))
  /\ UNCHANGED <<loggerVars, connVars, flushVars, mu, writeLock, limit, tokens,
                 wg, buf, opc, kind, arg, s, file, i, sent, carried, proc,
                 stdLog, handleVars,
                 accVars>>

\* lines 444-461: the loop test, the buffer of the next chunk and the write
\* deadline
TaskChunk(c) ==
  /\ proc = "running"
  /\ tpc[c] = "loop"
  /\ IF i[c] < Len(s[c])
     THEN /\ buf' = BuildBuf(token, prefix, flag, file[c], s[c], i[c])
          /\ IF DeadlineSet(conn, openConns)
             THEN /\ tpc' = Set(tpc, c, "write")
                  /\ res' = res
                  /\ stdLog' = stdLog
             ELSE /\ tpc' = Set(tpc, c, "unlock")
                  /\ res' = Set(res, c, "deadline_err")
                  /\ stdLog' = Emit(stdLog, c, DeadlineErrorMessage(s[c]))
     ELSE /\ buf' = buf
          /\ tpc' = Set(tpc, c, "unlock")
          /\ res' = Set(res, c, "completed")
          /\ stdLog' = stdLog
  /\ UNCHANGED <<loggerVars, connVars, flushVars, mu, writeLock, limit, tokens,
                 wg, opc, kind, arg, s, file, i, sent, carried, proc,
                 errOutput, handleVars,
                 accVars>>

\* lines 462-467 with Write, lines 352-357, and ensureOpenConnection.
\* sent and carried are a record of what was written, kept when record holds.
TaskWrite(c, record) ==
  /\ proc = "running"
  /\ tpc[c] = "write"
  /\ \E probeTimedOut \in BOOLEAN, dialOk \in BOOLEAN, writeOk \in BOOLEAN :
       LET isOpen == IsOpen(stale, conn, openConns, probeTimedOut)
           kept == AfterProbe(stale, conn, openConns)
           redial == ~isOpen /\ dialOk /\ dialed < MaxConn
           ok == (isOpen \/ redial) /\ writeOk
       IN /\ conn' = (IF redial THEN dialed + 1 ELSE conn)
          /\ dialed' = (IF redial THEN dialed + 1 ELSE dialed)
          /\ openConns' = (IF redial THEN kept \cup {dialed + 1} ELSE kept)
          /\ IF ok
             THEN /\ sent' = (IF record THEN Set(sent, c, Append(sent[c], buf))
                                       ELSE sent)
                  /\ carried' = (IF record
                                 THEN Set(carried, c, carried[c]
                                        \o Slice(s[c], i[c], ChunkEnd(i[c], s[c])))
                                 ELSE carried)
                  /\ i' = Set(i, c, NextIndex(i[c], Len(buf)))
                  /\ tpc' = Set(tpc, c, "loop")
                  /\ res' = res
                  /\ stdLog' = stdLog
             ELSE /\ tpc' = Set(tpc, c, "unlock")
                  /\ res' = Set(res, c, "write_err")
                  /\ stdLog' = Emit(stdLog, c, WriteErrorMessage(s[c]))
                  /\ UNCHANGED <<sent, carried, i>>
  /\ UNCHANGED <<loggerVars, flushVars, stale, mu, writeLock, limit, tokens,
                 wg, buf, opc, kind, arg, s, file, proc,
                 errOutput, handleVars,
                 accVars>>

\* line 439: the deferred unlock(l.writeLock) as writeToLogEntries returns
TaskUnlock(c) ==
  /\ proc = "running"
  /\ tpc[c] = "unlock"
  /\ CanSend(writeLock, 1)
  /\ writeLock' = unlock(writeLock)
  /\ tpc' = Set(tpc, c, "async")
  /\ UNCHANGED <<loggerVars, connVars, flushVars, mu, limit, tokens, wg, buf,
                 opc, kind, arg, s, file, i, sent, carried, res, proc,
                 sinkVars, handleVars,
                 accVars>>

\* lines 275-280: doAsync(), the return of the admission permit and the
\* deferred wg.Done() as the goroutine ends.  handleFatalActions (475-477)
\* exits the process; the hook of handlePanicActions (479-483) panics: the
\* deferred wg.Done() runs, nothing recovers in the goroutine and the process
\* ends.
TaskAsync(c) ==
  /\ proc = "running"
  /\ tpc[c] = "async"
  /\ CASE kind[c] = "print" ->
            /\ limit > 0 => CanSend(tokens, limit)
            /\ tokens' = (IF limit = 0 THEN tokens ELSE unlock(tokens))
            /\ wg' = WgDone(wg)
            /\ tpc' = Set(tpc, c, "done")
            /\ proc' = proc
       [] kind[c] = "fatal" ->
            /\ proc' = "exited"
            /\ UNCHANGED <<tokens, tpc, wg>>
       [] kind[c] = "panic" ->
            /\ wg' = WgDone(wg)
            /\ tpc' = Set(tpc, c, "panicked")
            /\ proc' = "crashed"
            /\ tokens' = tokens
  /\ errOutput' = (IF kind[c] = "panic"
                   THEN Emit(errOutput, c, RecoverMessage("goroutine", arg[c]))
                   ELSE errOutput)
  /\ Forget(c)
  /\ UNCHANGED <<loggerVars, connVars, flushVars, mu, writeLock, limit, buf,
                 opc, kind, sent, carried, res,
                 stdLog, handleVars,
                 accVars>>

(***************************************************************************)
(* Flush, lines 284-293.                                                   *)
(***************************************************************************)
\* the goroutines Output has started (wg.Add done), and those that have ended
Scheduled == {c \in Calls : tpc[c] # "none"}
Finished == {c \in Calls : tpc[c] \in {"done", "panicked"}}

FlushCall ==
  /\ proc = "running"
  /\ fpc \in {"idle", "returned"}
  /\ fpc' = "waiting"
  /\ flushSeen' = Scheduled \ Finished
  /\ UNCHANGED <<loggerVars, connVars, mu, writeLock, limit, tokens, wg, buf,
                 opc, tpc, kind, arg, s, file, i, sent, carried, res, proc,
                 sinkVars, handleVars,
                 accVars>>

\* line 292: l.wg.Wait() returns when the counter is zero
FlushReturn ==
  /\ proc = "running"
  /\ fpc = "waiting"
  /\ wg = 0
  /\ fpc' = "returned"
  /\ UNCHANGED <<loggerVars, connVars, flushSeen, mu, writeLock, limit, tokens,
                 wg, buf, opc, tpc, kind, arg, s, file, i, sent, carried, res,
                 proc,
                 sinkVars, handleVars,
                 accVars>>

(***************************************************************************)
(* The accessors and Close.                                                *)
(***************************************************************************)
Accessors == {"Flags", "SetFlags", "Prefix", "SetPrefix"}

\* the accessor op called with flag argument f and prefix argument p
Accessor(op, f, p) == [op |-> op, f |-> f, p |-> p]

\* a client calls Flags (line 211), Prefix (314), SetFlags (336) with a flag
\* of F or SetPrefix (343) with a prefix of P; the call starts with a receive
\* from mu
AccessorCall(F, P) ==
  /\ proc = "running"
  /\ apc = "idle"
  /\ aval' \in {Accessor("Flags", 0, <<>>), Accessor("Prefix", 0, <<>>)}
               \cup {Accessor("SetFlags", f, <<>>) : f \in F}
               \cup {Accessor("SetPrefix", 0, p) : p \in P}
  /\ apc' = "waiting"
  /\ UNCHANGED <<loggerVars, connVars, flushVars, mu, writeLock, limit, tokens,
                 wg, buf, opc, tpc, kind, arg, s, file, i, sent, carried, res,
                 proc, sinkVars, handleVars>>

\* lines 212, 315, 337, 344: <-logger.mu, a receive with no timeout branch
AccessorLock ==
  /\ proc = "running"
  /\ apc = "waiting"
  /\ CanReceive(mu)
  /\ mu' = Receive(mu)
  /\ apc' = "holding"
  /\ UNCHANGED <<loggerVars, connVars, flushVars, writeLock, limit, tokens,
                 wg, buf, opc, tpc, kind, arg, s, file, i, sent, carried, res,
                 proc, sinkVars, handleVars, aval>>

\* lines 213-214, 316-317, 338-339, 345-346: the read or the assignment, and
\* the deferred unlock(logger.mu)
AccessorReturn ==
  /\ proc = "running"
  /\ apc = "holding"
  /\ CanSend(mu, 1)
  /\ mu' = unlock(mu)
  /\ flag' = (IF aval.op = "SetFlags" THEN aval.f ELSE flag)
  /\ prefix' = (IF aval.op = "SetPrefix" THEN aval.p ELSE prefix)
  /\ aval' = aval
  /\ apc' = "idle"
  /\ UNCHANGED <<token, connVars, flushVars, writeLock, limit, tokens,
                 wg, buf, opc, tpc, kind, arg, s, file, i, sent, carried, res,
                 proc, sinkVars, handleVars>>

\* lines 136-142: Close closes the connection held; no lock is taken
Close ==
  /\ proc = "running"
  /\ conn \in openConns
  /\ openConns' = openConns \ {conn}
  /\ closed' = TRUE
  /\ UNCHANGED <<loggerVars, conn, dialed, stale, flushVars, mu, writeLock,
                 limit, tokens, wg, buf, opc, tpc, kind, arg, s, file, i,
                 sent, carried, res, proc,
                 sinkVars, ret,
                 accVars>>

\* fifteen minutes pass since lastRefreshAt (set once, line 123)
Tick ==
  /\ proc = "running"
  /\ ~stale
  /\ stale' = TRUE
  /\ UNCHANGED <<loggerVars, conn, openConns, dialed, flushVars, mu, writeLock,
                 limit, tokens, wg, buf, opc, tpc, kind, arg, s, file, i,
                 sent, carried, res, proc,
                 sinkVars, handleVars,
                 accVars>>

(***************************************************************************)
(* Write of src/le.go, lines 352-357, called by a client: the bytes go to   *)
(* the connection as they are, and no lock is taken.                        *)
(***************************************************************************)
WritePayloads == SeqsUpTo(Byte, 1)

\* what the handle operations leave alone
outputVars == <<flag, token, prefix, stale, writeLock, limit, tokens, wg, buf,
                tpc, file, i, carried, res, flushVars, proc, sinkVars>>

Returned(n, err, writes, dials, was) ==
  [n |-> n, err |-> err, writes |-> writes, dials |-> dials, was |-> was]

\* lines 353-355: ensureOpenConnection; Write returns its error
WriteEnsure(c, P) ==
  /\ proc = "running"
  /\ opc[c] \in {"idle", "returned"}
  /\ \E p \in P, probeTimedOut \in BOOLEAN, dialOk \in BOOLEAN :
       LET isOpen == IsOpen(stale, conn, openConns, probeTimedOut)
           kept == AfterProbe(stale, conn, openConns)
           redial == ~isOpen /\ dialOk /\ dialed < 1 + MaxReopen
       IN /\ kind' = Set(kind, c, "write")
          /\ arg' = Set(arg, c, p)
          /\ sent' = Set(sent, c, <<>>)
          /\ conn' = (IF redial THEN dialed + 1 ELSE conn)
          /\ dialed' = (IF redial THEN dialed + 1 ELSE dialed)
          /\ openConns' = (IF redial THEN kept \cup {dialed + 1} ELSE kept)
          /\ IF isOpen \/ redial
             THEN /\ opc' = Set(opc, c, "h_write")
                  /\ ret' = Set(ret, c, Returned(0, "none", 0,
                                                 IF redial THEN 1 ELSE 0, conn))
             ELSE /\ opc' = Set(opc, c, "returned")
                  /\ ret' = Set(ret, c, Returned(0, "dial error", 0, 1, conn))
  /\ UNCHANGED <<outputVars, mu, s, closed,
                 accVars>>

\* line 356: return logger.conn.Write(p)
WriteConn(c) ==
  /\ proc = "running"
  /\ opc[c] = "h_write"
  /\ \E writeOk \in BOOLEAN :
       IF conn \in openConns /\ writeOk
       THEN /\ sent' = Set(sent, c, <<arg[c]>>)
            /\ ret' = Set(ret, c, [ret[c] EXCEPT !.n = Len(arg[c]), !.err = "nil",
                                                 !.writes = 1])
       ELSE /\ sent' = sent
            /\ ret' = Set(ret, c, [ret[c] EXCEPT !.err = "write error",
                                                 !.writes = 1])
  /\ opc' = Set(opc, c, "returned")
  /\ UNCHANGED <<outputVars, connVars, mu, kind, arg, s, closed,
                 accVars>>

(***************************************************************************)
(* The Logger of src/unnamed/part_000: a sync.Mutex guards conn, Close sets *)
(* conn to nil (0 here) and Write reconnects once when its write fails.     *)
(***************************************************************************)
ErrClosed == "le: use of closed connection"      \* part_000, line 39

\* part_000, lines 206-239: token, space, prefix, space, the payload with
\* every line separator replaced, and a final line separator
makeBuf(tok, pfx, p) ==
  tok \o <<" ">> \o pfx \o <<" ">> \o Replace(p, -1) \o <<lineSep>>

\* a faulty variant: Close leaves the connection in the handle
ConnKeptAfterClose(cn) == cn

\* part_000, line 69: logger.conn = nil
ConnAfterClose(cn) == 0

\* a faulty variant: Write goes on reconnecting while its writes fail
RetriesAgain(ok) == IF ok THEN "returned" ELSE "m_retry"

\* part_000, line 197: Write returns after the second write, whatever it gave
AfterSecondWrite(ok) == "returned"

\* a client calls Write (line 168) or Close (line 60); Write builds its
\* buffer before it takes the mutex (line 170)
MutexCall(c, P) ==
  /\ proc = "running"
  /\ opc[c] \in {"idle", "returned"}
  /\ \E k \in {"write", "close"}, p \in P :
       /\ kind' = Set(kind, c, k)
       /\ arg' = Set(arg, c, IF k = "write" THEN p ELSE <<>>)
       /\ s' = Set(s, c, IF k = "write" THEN makeBuf(token, prefix, p) ELSE <<>>)
  /\ opc' = Set(opc, c, "m_lock")
  /\ sent' = Set(sent, c, <<>>)
  /\ ret' = Set(ret, c, noReturn)
  /\ UNCHANGED <<outputVars, connVars, mu, closed,
                 accVars>>

\* part_000, lines 60-71: Close, under the mutex
MutexClose(c) ==
  /\ proc = "running"
  /\ opc[c] = "m_lock"
  /\ kind[c] = "close"
  /\ CanReceive(mu)
  /\ IF conn = 0
     THEN /\ ret' = Set(ret, c, Returned(0, ErrClosed, 0, 0, conn))
          /\ UNCHANGED <<conn, openConns>>
     ELSE /\ ret' = Set(ret, c, Returned(0, IF conn \in openConns THEN "nil"
                                            ELSE "close error", 0, 0, conn))
          /\ openConns' = openConns \ {conn}
          /\ conn' = ConnAfterClose(conn)
  /\ closed' = TRUE
  /\ opc' = Set(opc, c, "returned")
  /\ UNCHANGED <<outputVars, dialed, mu, kind, arg, s, sent,
                 accVars>>

\* part_000, lines 173-178: Write takes the mutex; a nil connection ends it
MutexWriteLock(c) ==
  /\ proc = "running"
  /\ opc[c] = "m_lock"
  /\ kind[c] = "write"
  /\ CanReceive(mu)
  /\ IF conn = 0
     THEN /\ ret' = Set(ret, c, Returned(0, ErrClosed, 0, 0, conn))
          /\ opc' = Set(opc, c, "returned")
          /\ mu' = mu
     ELSE /\ ret' = Set(ret, c, Returned(0, "none", 0, 0, conn))
          /\ opc' = Set(opc, c, "m_first")
          /\ mu' = Receive(mu)
  /\ UNCHANGED <<outputVars, connVars, kind, arg, s, sent, closed,
                 accVars>>

\* part_000, lines 180-183: the first write
MutexWriteFirst(c) ==
  /\ proc = "running"
  /\ opc[c] = "m_first"
  /\ \E writeOk \in BOOLEAN :
       IF conn \in openConns /\ writeOk
       THEN /\ sent' = Set(sent, c, Append(sent[c], s[c]))
            /\ ret' = Set(ret, c, [ret[c] EXCEPT !.n = Len(arg[c]), !.err = "nil",
                                                 !.writes = @ + 1])
            /\ opc' = Set(opc, c, "returned")
            /\ mu' = unlock(mu)
       ELSE /\ sent' = sent
            /\ ret' = Set(ret, c, [ret[c] EXCEPT !.writes = @ + 1])
            /\ opc' = Set(opc, c, "m_retry")
            /\ mu' = mu
  /\ UNCHANGED <<outputVars, connVars, kind, arg, s, closed,
                 accVars>>

\* part_000, lines 189-197: close, reconnect, the second write
MutexWriteRetry(c) ==
  /\ proc = "running"
  /\ opc[c] = "m_retry"
  /\ \E dialOk \in BOOLEAN, writeOk \in BOOLEAN :
       IF dialOk /\ dialed < 1 + MaxReopen
       THEN /\ conn' = dialed + 1
            /\ dialed' = dialed + 1
            /\ openConns' = (openConns \ {conn}) \cup {dialed + 1}
            /\ sent' = (IF writeOk THEN Set(sent, c, Append(sent[c], s[c]))
                                   ELSE sent)
            /\ ret' = Set(ret, c, [ret[c] EXCEPT
                                    !.n = Len(arg[c]),
                                    !.err = (IF writeOk THEN "nil" ELSE "write error"),
                                    !.writes = @ + 1, !.dials = @ + 1])
            /\ opc' = Set(opc, c, AfterSecondWrite(writeOk))
            /\ mu' = (IF AfterSecondWrite(writeOk) = "returned" THEN unlock(mu)
                                                                ELSE mu)
       ELSE /\ openConns' = openConns \ {conn}
            /\ UNCHANGED <<conn, dialed, sent>>
            /\ ret' = Set(ret, c, [ret[c] EXCEPT !.n = 0, !.err = "dial error",
                                                 !.dials = @ + 1])
            /\ opc' = Set(opc, c, "returned")
            /\ mu' = unlock(mu)
  /\ UNCHANGED <<outputVars, stale, kind, arg, s, closed,
                 accVars>>

\* the live connection is closed from outside the handle
\* (le.conn.Close() in TestWriteReopensConnection, or the peer)
ExternalClose ==
  /\ proc = "running"
  /\ conn \in openConns
  /\ openConns' = openConns \ {conn}
  /\ UNCHANGED <<outputVars, conn, dialed, mu, opc, kind, arg, s, sent,
                 handleVars,
                 accVars>>

(***************************************************************************)
(* The specifications.                                                     *)
(***************************************************************************)
Next ==
  \/ \E c \in Calls : OutputAdmit(c, PayloadsOf(c), HooksOf(c))
  \/ \E c \in Calls : OutputLockMu(c)
  \/ \E c \in Calls : OutputLockMuTimeout(c)
  \/ \E c \in Calls : OutputCallerInfo(c, {callerFile})
  \/ \E c \in Calls : OutputRelock(c)
  \/ \E c \in Calls : OutputRelockTimeout(c)
  \/ \E c \in Calls : OutputReturn(c)
  \/ \E c \in Calls : TaskLockWrite(c)
  \/ \E c \in Calls : TaskLockWriteTimeout(c)
  \/ \E c \in Calls : TaskChunk(c)
  \/ \E c \in Calls : TaskWrite(c, FALSE)
  \/ \E c \in Calls : TaskUnlock(c)
  \/ \E c \in Calls : TaskAsync(c)
  \/ FlushCall
  \/ FlushReturn

Spec == Init /\ [][Next]_vars

\* The scheduling of the Go runtime: a goroutine that can take its next step
\* takes it, and a select with a time.After branch leaves through one of its
\* branches.  Nothing obliges a client to call Output or Flush.
Fairness ==
  \A c \in Calls :
    /\ WF_vars(OutputLockMu(c) \/ OutputLockMuTimeout(c))
    /\ WF_vars(OutputCallerInfo(c, {callerFile}))
    /\ WF_vars(OutputRelock(c) \/ OutputRelockTimeout(c))
    /\ WF_vars(OutputReturn(c))
    /\ WF_vars(TaskLockWrite(c) \/ TaskLockWriteTimeout(c))
    /\ WF_vars(TaskChunk(c))
    /\ WF_vars(TaskWrite(c, FALSE))
    /\ WF_vars(TaskUnlock(c))
    /\ WF_vars(TaskAsync(c))

SpecLive == Init /\ [][Next]_vars /\ Fairness

\* The writers alone: Print calls on a logger without a limit and without a
\* file flag, against a connection that may fail and that the refresh interval
\* retires, under the scheduling of the Go runtime.
InitWriter == InitLogger(<<"T">>, 0, <<>>, 0)

NextWriter ==
  \/ \E c \in Calls : OutputAdmit(c, PayloadsOf(c), {"print"})
  \/ \E c \in Calls : OutputLockMu(c)
  \/ \E c \in Calls : OutputLockMuTimeout(c)
  \/ \E c \in Calls : OutputReturn(c)
  \/ \E c \in Calls : TaskLockWrite(c)
  \/ \E c \in Calls : TaskLockWriteTimeout(c)
  \/ \E c \in Calls : TaskChunk(c)
  \/ \E c \in Calls : TaskWrite(c, FALSE)
  \/ \E c \in Calls : TaskUnlock(c)
  \/ \E c \in Calls : TaskAsync(c)
  \/ Tick

FairWriter ==
  \A c \in Calls :
    /\ WF_vars(OutputLockMu(c) \/ OutputLockMuTimeout(c))
    /\ WF_vars(OutputReturn(c))
    /\ WF_vars(TaskLockWrite(c) \/ TaskLockWriteTimeout(c))
    /\ WF_vars(TaskChunk(c))
    /\ WF_vars(TaskWrite(c, FALSE))
    /\ WF_vars(TaskUnlock(c))
    /\ WF_vars(TaskAsync(c))

SpecWriter == InitWriter /\ [][NextWriter]_vars /\ FairWriter

\* Clients of the handle of src/le.go: Write and Close from several callers.
NextHandle ==
  \/ \E c \in Calls : WriteEnsure(c, WritePayloads)
  \/ \E c \in Calls : WriteConn(c)
  \/ Close
  \/ Tick

SpecHandle == InitWriter /\ [][NextHandle]_vars

\* Clients of the handle of part_000: Write and Close from several callers,
\* and a connection that may be closed under them.
InitMutex == \E pfx \in PrefixValues : InitLogger(<<"T">>, 0, pfx, 0)

NextMutex ==
  \/ \E c \in Calls : MutexCall(c, WritePayloads)
  \/ \E c \in Calls : MutexClose(c)
  \/ \E c \in Calls : MutexWriteLock(c)
  \/ \E c \in Calls : MutexWriteFirst(c)
  \/ \E c \in Calls : MutexWriteRetry(c)
  \/ ExternalClose

SpecMutex == InitMutex /\ [][NextMutex]_vars

\* Logging calls with clients of the accessors beside them.
NextAccess ==
  \/ \E c \in Calls : OutputAdmit(c, PayloadsOf(c), {"print"})
  \/ \E c \in Calls : OutputLockMu(c)
  \/ \E c \in Calls : OutputLockMuTimeout(c)
  \/ \E c \in Calls : OutputCallerInfo(c, {callerFile})
  \/ \E c \in Calls : OutputRelock(c)
  \/ \E c \in Calls : OutputRelockTimeout(c)
  \/ \E c \in Calls : OutputReturn(c)
  \/ \E c \in Calls : TaskLockWrite(c)
  \/ \E c \in Calls : TaskLockWriteTimeout(c)
  \/ \E c \in Calls : TaskChunk(c)
  \/ \E c \in Calls : TaskWrite(c, FALSE)
  \/ \E c \in Calls : TaskUnlock(c)
  \/ \E c \in Calls : TaskAsync(c)
  \/ AccessorCall({0, Lshortfile}, PrefixValues)
  \/ AccessorLock
  \/ AccessorReturn

SpecAccess == InitWriter /\ [][NextAccess]_vars

\* One logging call on every payload, under every token, prefix and flag
\* (the logger as SetPrefix and SetFlags left it): the framing of one record.
InitFrame ==
  \E tok \in {<<>>, <<"T">>}, pfx \in PrefixValues, f \in FlagValues :
    InitLogger(tok, 0, pfx, f)

NextFrame ==
  \/ OutputAdmit(1, FramePayloads, {"print"})
  \/ OutputLockMu(1)
  \/ OutputCallerInfo(1, {callerFile, unknownFile})
  \/ OutputRelock(1)
  \/ OutputReturn(1)
  \/ TaskLockWrite(1)
  \/ TaskChunk(1)
  \/ TaskWrite(1, TRUE)
  \/ TaskUnlock(1)
  \/ TaskAsync(1)
  \/ Close
  \/ Tick

SpecFrame == InitFrame /\ [][NextFrame]_vars


(***************************************************************************)
(* Properties.                                                             *)
(***************************************************************************)
\* the goroutines between the receive from writeLock (line 431) and the
\* deferred unlock (line 439)
WriteLockHolders == {c \in Calls : tpc[c] \in {"loop", "write", "unlock"}}

\* C1: at most one dispatch goroutine holds the write permit at any instant:
\* no two are between receiving writeLock and releasing it.
C1_OneWriter == Cardinality(WriteLockHolders) <= 1

\* a goroutine holds the permit while another gave up waiting for it
C1_Witness ==
  \E c, d \in Calls :
    /\ c # d
    /\ c \in WriteLockHolders
    /\ res[d] = "wl_timeout"

\* the calls that were admitted and whose record is neither transmitted nor
\* abandoned yet: in Output past the admission select, or in the goroutine
\* before it hands its permit back
InFlight ==
  {c \in Calls : \/ opc[c] \in {"lockmu", "ci_unlock", "ci_relock"}
                 \/ tpc[c] \in {"wlock", "loop", "write", "unlock", "async"}}

\* C2: with a concurrency limit N > 0, at most N admitted records are
\* unfinished at any instant, however many logging calls are made; so at most
\* N deadline-set/write sequences are pending.
C2_AtMostNInFlight ==
  limit > 0 =>
    /\ Cardinality(InFlight) <= limit
    /\ Cardinality({c \in Calls : tpc[c] \in {"loop", "write"}}) <= limit

\* the pool is exhausted by N records in flight and a further call was shed
C2_Witness ==
  /\ limit > 0
  /\ Cardinality(InFlight) = limit
  /\ \E c \in Calls : res[c] = "dropped"

Quiet ==
  \A c \in Calls : opc[c] \in {"idle", "returned"} /\ tpc[c] \in {"none", "done"}

\* C3 (as claimed): every admission permit taken is handed back when the
\* call's work ends, so whenever no logging call and no goroutine is in
\* progress the pool holds exactly N permits.
C3_PoolFullWhenQuiet ==
  (limit > 0 /\ proc = "running" /\ Quiet) => tokens = limit

\* the record's loop is over and the locals of its goroutine are still there
LoopOver(c) == tpc[c] \in {"unlock", "async"}
Completed(c) == res[c] = "completed" /\ LoopOver(c)

\* C4 (as claimed): for every record whose writes all succeed, the payload
\* pieces of its chunks, concatenated in write order, equal the (escaped)
\* payload: no byte is skipped or duplicated between chunks.
C4_ChunksCoverPayload ==
  \A c \in Calls : Completed(c) => carried[c] = s[c]

CeilDiv(a, b) == (a + b - 1) \div b

\* C5 (as claimed): for every payload longer than the maximum frame size
\* whose writes all succeed, the number of physical writes is at least
\* ceil(payload length / (maxLogLength - 2)).
C5_EnoughWrites ==
  \A c \in Calls :
    (Completed(c) /\ Len(s[c]) > maxLogLength) =>
      Len(sent[c]) >= CeilDiv(Len(s[c]), maxLogLength - 2)

EndsInOneTerminator(b) ==
  /\ Len(b) >= 1
  /\ b[Len(b)] = lineSep
  /\ Len(b) >= 2 => b[Len(b) - 1] # lineSep

\* C6 (as claimed): every physical write of a record, non-final chunks
\* included, ends with exactly one line terminator.
C6_EveryWriteEndsLine ==
  \A c \in Calls : \A k \in 1 .. Len(sent[c]) : EndsInOneTerminator(sent[c][k])

\* C7 (as claimed): an admitted call whose writes succeed transmits output
\* that ends in exactly one terminator, whether or not the payload (the empty
\* one included) ended in one.
C7_OutputEndsInOneTerminator ==
  \A c \in Calls :
    res[c] = "completed" =>
      /\ Len(sent[c]) >= 1
      /\ EndsInOneTerminator(sent[c][Len(sent[c])])

RECURSIVE CountU2028(_)
\* the U+2028 sequences in a buffer
CountU2028(b) ==
  IF Len(b) < 3 THEN 0
  ELSE (IF SubSeq(b, 1, 3) = u2028 THEN 1 ELSE 0) + CountU2028(Tail(b))

RECURSIVE SumU2028(_)
SumU2028(bufs) ==
  IF bufs = <<>> THEN 0 ELSE CountU2028(Head(bufs)) + SumU2028(Tail(bufs))

\* C8 (as claimed): for every payload with k >= 1 line terminators the framed
\* output holds exactly k-1 U+2028 substitutions and exactly one trailing
\* terminator.
C8_AllButLastEscaped ==
  \A c \in Calls :
    (Completed(c) /\ Count(arg[c], lineSep) >= 1) =>
      /\ SumU2028(sent[c]) = Count(arg[c], lineSep) - 1
      /\ Len(sent[c]) >= 1
      /\ EndsInOneTerminator(sent[c][Len(sent[c])])

\* C9 (as claimed): each physical write is one logical line: no raw line
\* terminator anywhere but in its last byte.
C9_WriteIsOneLine ==
  \A c \in Calls : \A k \in 1 .. Len(sent[c]) :
    \A j \in 1 .. Len(sent[c][k]) - 1 : sent[c][k][j] # lineSep

\* C10: Flush returns only when every goroutine that was in flight at the
\* Flush call has ended, and with no work in flight the counter is zero, so
\* that Wait returns at once.
C10_FlushWaitsForTasks ==
  /\ fpc = "returned" => flushSeen \subseteq Finished
  /\ (fpc = "waiting" /\ Scheduled \subseteq Finished) => wg = 0

\* Flush returned after waiting for goroutines that were in flight
C10_Witness == fpc = "returned" /\ flushSeen # {}

\* C11 (as claimed): the in-flight counter is zero exactly when no admitted
\* record is unfinished; it is never zero while an admitted record waits for
\* the state guard or is being transmitted.
C11_CounterZeroIffNoneInFlight ==
  proc = "running" => (wg = 0 <=> InFlight = {})

\* the admission select of call c takes its default branch in this step
DropStep(c) == opc[c] = "idle" /\ opc'[c] = "returned"

\* C12: with a limit configured and no admission permit free, a logging call
\* returns at once and changes nothing of the logger: no goroutine, no
\* counter increment, no lock taken, nothing written, nothing printed.
C12_DropChangesNothing ==
  [][\A c \in Calls :
       (opc[c] = "idle" /\ opc'[c] # "idle" /\ limit > 0 /\ tokens = 0) =>
         /\ DropStep(c)
         /\ UNCHANGED <<loggerVars, connVars, flushVars, sinkVars, handleVars,
                        mu, writeLock, limit, tokens, wg, buf, tpc, sent,
                        carried, proc>>]_vars

\* a call was shed while the pool was empty and another record was in flight
C12_Witness ==
  \E c \in Calls :
    /\ res[c] = "dropped"
    /\ opc[c] = "returned"
    /\ tpc[c] = "none"
    /\ errOutput[c] = <<>>
    /\ tokens = 0
    /\ InFlight # {}

\* C13 (as claimed): every fatal-level call ends the process: once the call
\* is made, the exit hook eventually runs.
C13_FatalExits ==
  \A c \in Calls :
    (kind[c] = "fatal" /\ opc[c] # "idle") ~> (proc = "exited")

\* C14 (as claimed): every logging call returns to its caller, in every
\* interleaving.
C14_CallReturns ==
  \A c \in Calls :
    (opc[c] # "idle") ~> (opc[c] = "returned" \/ proc # "running")

\* the wait of goroutine c for writeLock times out in this step
WriteLockTimeoutStep(c) ==
  tpc[c] = "wlock" /\ tpc'[c] # "wlock" /\ ~CanReceive(writeLock)

\* C15: when a goroutine's wait for the write permit times out the record is
\* abandoned: it never sets a deadline or writes for that record, it prints
\* exactly one line naming the payload to errOutput, and the holder of the
\* permit (and the connection) is left as it was.
C15_WriteLockTimeoutAbandons ==
  /\ [](\A c \in Calls :
          res[c] = "wl_timeout" => tpc[c] \notin {"loop", "write", "unlock"})
  /\ [][\A c \in Calls :
          WriteLockTimeoutStep(c) =>
            /\ Len(errOutput'[c]) = Len(errOutput[c]) + 1
            /\ errOutput'[c][Len(errOutput'[c])].payload = s[c]
            /\ UNCHANGED <<connVars, writeLock, buf, stdLog, sent, carried>>
            /\ \A d \in Calls \ {c} : tpc'[d] = tpc[d] /\ res'[d] = res[d]]_vars

\* a goroutine gave up the wait and printed its one line while another still
\* held the permit
C15_Witness ==
  \E c, d \in Calls :
    /\ c # d
    /\ tpc[c] \in {"loop", "write"}
    /\ tpc[d] = "async"
    /\ res[d] = "wl_timeout"
    /\ Len(errOutput[d]) = 1
    /\ errOutput[d][1].payload = s[d]

\* C16 (as claimed): when setting the write deadline or a write fails, no
\* further chunk of the record is written and the payload is printed to the
\* errOutput given to Connect.
C16_FailureLoggedToErrOutput ==
  \A c \in Calls :
    (res[c] \in {"deadline_err", "write_err"} /\ LoopOver(c)) =>
      \E k \in 1 .. Len(errOutput[c]) : errOutput[c][k].payload = s[c]

\* C17: a goroutine that received writeLock releases it: the chunk loop ends
\* for every payload and the deferred unlock runs on success and on failure.
C17_WriteLockReleased ==
  \A c \in Calls :
    (c \in WriteLockHolders) ~> (c \notin WriteLockHolders \/ proc # "running")

\* a goroutine wrote a chunk, failed on the next one and has released writeLock
C17_Witness ==
  \E c \in Calls :
    /\ tpc[c] = "async"
    /\ i[c] > 0
    /\ res[c] \in {"deadline_err", "write_err"}
    /\ writeLock = 1

\* the Close call of client c returns in this step (part_000)
CloseReturnStep(c) ==
  kind[c] = "close" /\ opc[c] = "m_lock" /\ opc'[c] = "returned"

\* C18: in the Logger with a closed state (part_000), a Close after a Close
\* returns ErrClosed and the process goes on, and the handle's connection is
\* nil after the first Close and ever after.
C18_SecondCloseIsErrClosed ==
  /\ [](closed => conn = 0)
  /\ [][\A c \in Calls :
          CloseReturnStep(c) =>
            /\ closed => ret'[c].err = ErrClosed
            /\ conn' = 0
            /\ proc' = "running"]_vars

\* a second Close has returned ErrClosed
C18_Witness ==
  \E c \in Calls :
    /\ closed
    /\ conn = 0
    /\ kind[c] = "close"
    /\ opc[c] = "returned"
    /\ ret[c].err = ErrClosed

\* a Write call of client c returns in this step
WriteReturnStep(c) ==
  kind'[c] = "write" /\ opc'[c] = "returned" /\ ret'[c] # ret[c]

\* C19 (as claimed): once Close has been called, every Write returns
\* (0, ErrClosed), nothing is written to a connection and no connection is
\* opened.
C19_WriteAfterCloseRefused ==
  [][closed =>
       /\ dialed' = dialed
       /\ \A c \in Calls :
            /\ Len(sent'[c]) <= Len(sent[c])
            /\ WriteReturnStep(c) =>
                 ret'[c].n = 0 /\ ret'[c].err = ErrClosed]_vars

\* C20: a Write (part_000) on a connection closed from outside fails its first
\* write and then closes, reconnects and retries exactly once: a successful
\* retry returns the payload length and no error with a new connection in the
\* handle, a failed one abandons the record; no Write makes more than two
\* write attempts or more than one reconnection.
C20_ReopenOnceAndRetry ==
  [][\A c \in Calls :
       /\ (opc[c] = "m_first" /\ opc'[c] # "m_first" /\ conn \notin openConns)
            => opc'[c] = "m_retry"
       /\ (opc[c] = "m_retry" /\ ret'[c] # ret[c]) =>
            /\ opc'[c] = "returned"
            /\ ret'[c].dials = 1
            /\ conn \notin openConns'
            /\ ret'[c].err = "nil" =>
                 /\ ret'[c].n = Len(arg[c])
                 /\ ret'[c].writes = 2
                 /\ conn' # ret'[c].was
                 /\ conn' \in openConns'
                 /\ sent'[c] = <<s[c]>>
            /\ ret'[c].err # "nil" => sent'[c] = <<>>
       /\ ret'[c].writes <= 2
       /\ ret'[c].dials <= 1]_vars

\* a Write found its connection closed, reconnected and succeeded
C20_Witness ==
  \E c \in Calls :
    /\ kind[c] = "write"
    /\ opc[c] = "returned"
    /\ Len(arg[c]) > 0
    /\ ret[c] = Returned(Len(arg[c]), "nil", 2, 1, ret[c].was)
    /\ ret[c].was \notin openConns
    /\ conn # ret[c].was
    /\ conn \in openConns

StartsWith(b, h) == Len(b) >= Len(h) /\ SubSeq(b, 1, Len(h)) = h

\* C21 (as claimed): what the public Write(p) puts on the connection is p
\* framed as a record: it starts with the token, a space and the prefix, and
\* the line breaks of p are replaced by U+2028; p never goes out as it is.
C21_WriteIsFramed ==
  \A c \in Calls :
    kind[c] = "write" =>
      \A k \in 1 .. Len(sent[c]) :
        /\ StartsWith(sent[c][k], token \o <<" ">> \o prefix)
        /\ CountU2028(sent[c][k]) = Count(arg[c], lineSep)
        /\ Count(SubSeq(sent[c][k], 1, Len(sent[c][k]) - 1), lineSep) = 0

\* C22 (as claimed): the probe, the replacement, the deadline, the write and
\* the close of the connection are all made by a task holding the guard: a
\* step that changes the connection is a step of the goroutine that holds
\* writeLock, and nothing changes it under that goroutine.
C22_ConnectionTouchedUnderGuard ==
  [][/\ (conn' # conn \/ openConns' # openConns \/ dialed' # dialed) =>
          \E c \in Calls : tpc[c] = "write" /\ tpc'[c] # "write"
     /\ \A c \in Calls :
          (tpc[c] = "write" /\ tpc'[c] = "write") =>
            UNCHANGED <<conn, openConns>>]_vars

HeaderStep(c) == tpc[c] = "loop" /\ i[c] < Len(s[c]) /\ tpc'[c] # "loop"

\* C23 (as claimed): prefix and flags are read and written under mu only, the
\* reads of formatHeader in the goroutine included, so no header is built
\* while SetPrefix or SetFlags is inside its critical section.
C23_HeaderBuiltUnderMu ==
  [][\A c \in Calls : HeaderStep(c) => apc # "holding"]_vars

\* C26 (as claimed): every wait of a public operation for mu or for writeLock
\* is bounded by the write timeout: while the lock is not free the waiting
\* operation can still leave its wait, the accessors Flags, SetFlags, Prefix
\* and SetPrefix included.
C26_LockWaitsGiveUp ==
  proc = "running" =>
    /\ \A c \in Calls :
         /\ opc[c] = "lockmu" =>
              ENABLED (OutputLockMu(c) \/ OutputLockMuTimeout(c))
         /\ opc[c] = "ci_relock" =>
              ENABLED (OutputRelock(c) \/ OutputRelockTimeout(c))
         /\ tpc[c] = "wlock" =>
              ENABLED (TaskLockWrite(c) \/ TaskLockWriteTimeout(c))
    /\ apc = "waiting" => ENABLED AccessorLock

\* C24 (as claimed): a panic raised inside the goroutine of a record, in the
\* transmission or in the completion hook, is caught at the goroutine's
\* boundary and a diagnostic is printed to errOutput before it is re-raised.
C24_PanicDiagnosed ==
  \A c \in Calls :
    tpc[c] = "panicked" =>
      \E k \in 1 .. Len(errOutput[c]) :
        errOutput[c][k].msg = "Panicked in logger.output"

\* the calls that printed a timeout line to errOutput (each prints at most one)
TimedOutCalls == {c \in Calls : Len(errOutput[c]) > 0}

\* every call has returned and every goroutine has ended
AllDone ==
  \A c \in Calls : opc[c] = "returned" /\ tpc[c] \in {"none", "done"}

\* the peer took no record: every goroutine gave up or failed
PeerStalled ==
  \A c \in Calls :
    tpc[c] = "done" => res[c] \in {"wl_timeout", "deadline_err", "write_err"}

\* C25 (as claimed): with a pool of N permits and M > N concurrent logging
\* calls against a stalled peer, between 1 and M-N timeout lines are printed.
C25_TimeoutsBetweenOneAndMMinusN ==
  (limit > 0 /\ NumCalls > limit /\ proc = "running" /\ AllDone /\ PeerStalled) =>
    /\ Cardinality(TimedOutCalls) >= 1
    /\ Cardinality(TimedOutCalls) <= NumCalls - limit

\* the calls inside Output that hold mu: after the receive of line 244 or of
\* line 261, up to the unlock of line 253 or the deferred one
MuHolders ==
  {c \in Calls : \/ opc[c] = "ci_unlock"
                 \/ opc[c] = "defer_unlock" /\ res[c] # "ci_timeout"}

\* C27 (as claimed): mu is a mutual-exclusion lock: at most one call holds it
\* and its channel holds no permit while a call holds it, also after a call
\* timed out re-acquiring it.
C27_MuIsMutex == mu + Cardinality(MuHolders) <= 1

\* C28 (as claimed): a chunk is written to the connection on which its
\* goroutine has just set the write deadline: the connection is not replaced
\* between the deadline and the write.
C28_WriteOnDeadlineConnection ==
  [][\A c \in Calls : (tpc[c] = "write" /\ tpc'[c] = "loop") => conn' = conn]_vars

\* C29 (as claimed): a connection is retired for staleness only when it has
\* itself been open for the refresh interval: once a reopen has succeeded the
\* health check no longer finds the refresh interval exceeded.
C29_ReopenRefreshes ==
  [][dialed' # dialed => ~stale']_vars

\* C30 (as claimed): the connection replaced after a failed health check has
\* been closed when the new one is installed: the logger never owns more than
\* one open connection.
C30_OneOpenConnection == Cardinality(openConns) <= 1

\* a successful write of the goroutine of call c: Write returned without an
\* error at line 462 and the loop goes on
WireStep(c) == tpc[c] = "write" /\ tpc'[c] = "loop"

\* the goroutine of call d has put a chunk of its record on the connection and
\* has more of the record to write
MidRecord(d) ==
  /\ tpc[d] \in {"loop", "write"}
  /\ i[d] > 0
  /\ i[d] < Len(s[d])

\* C31: the chunks of one record are contiguous on the wire: while a dispatch
\* goroutine is between the first and the last write of its record, no write of
\* another dispatch goroutine reaches the connection.
C31_ChunksContiguous ==
  [][\A c, d \in Calls : (c # d /\ WireStep(c)) => ~MidRecord(d)]_vars

\* a goroutine is between two chunks of its record while another one, started
\* meanwhile, waits for writeLock
C31_Witness ==
  \E c, d \in Calls :
    /\ c # d
    /\ MidRecord(c)
    /\ tpc[c] = "write"
    /\ tpc[d] = "wlock"

=============================================================================
